---- MODULE Spec2Model ----
(***************************************************************************)
(* A model of the AI Database Assistant: the query validator,             *)
(* DatabaseManager.execute_query and get_schema, the model-fallback loop   *)
(* and JSON post-processing of AIManager (generate_sql and                 *)
(* generate_suggestions), the chart heuristic of VisualizationManager and  *)
(* the chat-session bookkeeping of ChatSessionManager / handle_user_input. *)
(*                                                                         *)
(* Python values whose type the code tests or converts are tagged records: *)
(* [t |-> "str", v |-> "..."], [t |-> "NoneType"], [t |-> "int", v |-> n], *)
(* [t |-> "bool", v |-> b], [t |-> "float", v |-> milliseconds],            *)
(* [t |-> "list", v |-> <<...>>], [t |-> "dict", v |-> [key |-> value]].    *)
(* Text is a TLA+ string and is processed character by character.          *)
(***************************************************************************)
EXTENDS Integers, Sequences, FiniteSets, TLC

VARIABLES
    query,        \* the query under validation / execution (a Python value)
    safe,         \* what Validator.is_safe_query returned for query, or NoResult
    exec_result,  \* what DatabaseManager.execute_query returned, or NoResult
    db_events,    \* what the last execute_query call did to sqlite3, in order
    ai,           \* the loop of AIManager._try_generate_with_models: position,
                  \* the requests made so far, and how it ended
    sql_result,   \* what AIManager.generate_sql returned, or NoResult
    session_state,\* st.session_state: messages, query_history, chat_sessions,
                  \* current_session_id, session_counter, total_queries_executed
    calls,        \* the calls just made: the last delete, the last one or two
                  \* loads in a row, each with what was current before it, or
                  \* the last question, with the counter's value before it
    used,         \* how many calls of the chat handlers the run has made
    df,           \* the data frame given to detect_opportunity
    viz_config,   \* what VisualizationManager.detect_opportunity returned, or NoResult
    suggest_schema,\* the schema given to AIManager.generate_suggestions
    suggestions,  \* what AIManager.generate_suggestions returned, or NoResult
    db,           \* the database file given to DatabaseManager.get_schema
    schema_result \* what DatabaseManager.get_schema returned, or NoResult

validatorVars == <<query, safe, exec_result, db_events>>
aiVars == <<ai, sql_result>>
sessionVars == <<session_state, calls, used>>
vizVars == <<df, viz_config>>
suggestVars == <<suggest_schema, suggestions>>
schemaVars == <<db, schema_result>>

vars == <<query, safe, exec_result, db_events, ai, sql_result,
          session_state, calls, used, df, viz_config,
          suggest_schema, suggestions, db, schema_result>>

NoResult == [none |-> TRUE]

-----------------------------------------------------------------------------
(* Python values *)

S(x) == [t |-> "str", v |-> x]
I(n) == [t |-> "int", v |-> n]
None == [t |-> "NoneType"]
B(b) == [t |-> "bool", v |-> b]
L(seq) == [t |-> "list", v |-> seq]
\* a float that is a duration, in whole milliseconds
F(ms) == [t |-> "float", v |-> ms]
D(f) == [t |-> "dict", v |-> f]

IsDict(x) == x.t = "dict"

\* dict.get(key, default)
Get(d, key, default) == IF key \in DOMAIN d.v THEN d.v[key] ELSE default

IsStr(x) == x.t = "str"

\* bool(x): the truth value Python gives a value in `if x` / `not x`
Truthy(x) ==
    CASE x.t = "str" -> x.v # ""
      [] x.t = "NoneType" -> FALSE
      [] x.t = "int" -> x.v # 0
      [] x.t = "float" -> x.v # 0
      [] x.t = "bool" -> x.v
      [] x.t = "list" -> x.v # <<>>
      [] x.t = "dict" -> DOMAIN x.v # {}
      [] OTHER -> TRUE

Min(a, b) == IF a <= b THEN a ELSE b

\* str(x) and the {x} of an f-string, for the types the inputs use
PyStr(x) ==
    CASE x.t = "str" -> x.v
      [] x.t = "NoneType" -> "None"
      [] x.t = "int" -> ToString(x.v)
      [] x.t = "bool" -> IF x.v THEN "True" ELSE "False"

\* float(x)
PyFloat(x) ==
    CASE x.t = "float" -> x
      [] x.t = "int" -> F(1000 * x.v)
      [] x.t = "bool" -> F(IF x.v THEN 1000 ELSE 0)

Pad3(n) ==
    IF n < 10 THEN "00" \o ToString(n)
    ELSE IF n < 100 THEN "0" \o ToString(n)
    ELSE ToString(n)

\* f"{n:,}" for an int n >= 0
RECURSIVE Thousands(_)
Thousands(n) ==
    IF n < 1000 THEN ToString(n) ELSE Thousands(n \div 1000) \o "," \o Pad3(n % 1000)

\* f"{x:.3f}" for a duration x >= 0
Fixed3(x) == ToString(x.v \div 1000) \o "." \o Pad3(x.v % 1000)

\* msg.get(key, default) on a message or session dict, a record here
RecGet(r, key, default) == IF key \in DOMAIN r THEN r[key] ELSE default

\* how a try body ends: with a returned value, or with a raised exception
Returns(v) == [kind |-> "return", v |-> v]
Raises(exc, text) == [kind |-> "raise", exc |-> exc, text |-> text]

-----------------------------------------------------------------------------
(* str methods, character by character *)

Ch(s, i) == SubSeq(s, i, i)

LowerAlpha == "abcdefghijklmnopqrstuvwxyz"
UpperAlpha == "ABCDEFGHIJKLMNOPQRSTUVWXYZ"
Digits == "0123456789"

IndexIn(c, alphabet) ==
    IF \E i \in 1..Len(alphabet) : Ch(alphabet, i) = c
    THEN CHOOSE i \in 1..Len(alphabet) : Ch(alphabet, i) = c
    ELSE 0

UpperCh(c) == IF IndexIn(c, LowerAlpha) > 0 THEN Ch(UpperAlpha, IndexIn(c, LowerAlpha)) ELSE c

\* str.upper(), by halves
RECURSIVE Upper(_)
Upper(s) ==
    IF Len(s) <= 1 THEN UpperCh(s)
    ELSE Upper(SubSeq(s, 1, Len(s) \div 2)) \o Upper(SubSeq(s, Len(s) \div 2 + 1, Len(s)))

SpaceChars == {" ", "\t", "\n", "\r", "\f"}
IsSpace(c) == c \in SpaceChars

\* the index of the first character of s that is in chars (inside = TRUE) or
\* not in chars (inside = FALSE), Len(s) + 1 if there is none
First(s, chars, inside) ==
    IF \E i \in 1..Len(s) : (Ch(s, i) \in chars) = inside
    THEN CHOOSE i \in 1..Len(s) :
            /\ (Ch(s, i) \in chars) = inside
            /\ \A j \in 1..(i - 1) : (Ch(s, j) \in chars) # inside
    ELSE Len(s) + 1

\* the index of the last character of s that is not in chars, 0 if none
LastOutside(s, chars) ==
    IF \E i \in 1..Len(s) : Ch(s, i) \notin chars
    THEN CHOOSE i \in 1..Len(s) :
            /\ Ch(s, i) \notin chars
            /\ \A j \in (i + 1)..Len(s) : Ch(s, j) \in chars
    ELSE 0

LStrip(s) == SubSeq(s, First(s, SpaceChars, FALSE), Len(s))
RStrip(s) == SubSeq(s, 1, LastOutside(s, SpaceChars))
Strip(s) == RStrip(LStrip(s))

\* the length of the first maximal run of non-space characters of s
WordLen(s) == First(s, SpaceChars, TRUE) - 1

\* str.split() with no argument: the maximal runs of non-whitespace characters
RECURSIVE Split(_)
Split(s) ==
    LET t == LStrip(s) IN
    IF t = "" THEN <<>>
    ELSE <<SubSeq(t, 1, WordLen(t))>> \o Split(SubSeq(t, WordLen(t) + 1, Len(t)))

StartsWith(s, p) == Len(s) >= Len(p) /\ SubSeq(s, 1, Len(p)) = p

\* sub in s
Contains(s, sub) ==
    \E i \in 1..(Len(s) - Len(sub) + 1) : SubSeq(s, i, i + Len(sub) - 1) = sub

InSeq(x, seq) == \E i \in 1..Len(seq) : seq[i] = x

-----------------------------------------------------------------------------
(* Config *)

DANGEROUS_KEYWORDS ==
    <<"DROP", "DELETE", "TRUNCATE", "ALTER", "CREATE", "INSERT", "UPDATE",
      "REPLACE", "ATTACH", "DETACH", "PRAGMA">>

-----------------------------------------------------------------------------
(* Validator.is_safe_query: the (bool, message) tuple as a record *)

\* the keywords found among the whitespace-separated tokens, in list order
FoundKeywords(query_upper) ==
    LET tokens == Split(query_upper) IN
    SelectSeq(DANGEROUS_KEYWORDS, LAMBDA keyword : InSeq(keyword, tokens))

is_safe_query_no_select_check(q) ==
    IF ~Truthy(q) \/ ~IsStr(q)
    THEN [ok |-> FALSE, message |-> "Invalid query format"]
    ELSE LET query_upper == Strip(Upper(q.v))
             found == FoundKeywords(query_upper)
         IN  IF found # <<>>
             THEN [ok |-> FALSE, message |-> "Dangerous operation detected: " \o found[1]]
             ELSE [ok |-> TRUE, message |-> "Query is safe"]

is_safe_query(q) ==
    IF ~Truthy(q) \/ ~IsStr(q)
    THEN [ok |-> FALSE, message |-> "Invalid query format"]
    ELSE LET query_upper == Strip(Upper(q.v))
             found == FoundKeywords(query_upper)
         IN  IF found # <<>>
             THEN [ok |-> FALSE, message |-> "Dangerous operation detected: " \o found[1]]
             ELSE IF ~StartsWith(query_upper, "SELECT")
             THEN [ok |-> FALSE, message |-> "Only SELECT queries are allowed"]
             ELSE [ok |-> TRUE, message |-> "Query is safe"]

-----------------------------------------------------------------------------
(* DatabaseManager.execute_query.  What sqlite3 does with the query is the  *)
(* environment's choice, `outcome`:                                         *)
(*   connect_error  sqlite3.connect raises sqlite3.Error                    *)
(*   connect_other  sqlite3.connect raises another Exception (db_path None) *)
(*   sql_error      cursor.execute raises sqlite3.Error                     *)
(*   other_error    cursor.execute raises another Exception                 *)
(*   fetch_error    cursor.fetchall raises sqlite3.Error                    *)
(*   empty          fetchall returns no rows                                *)
(*   rows           fetchall returns the rows of outcome.df                 *)
(* The result is [result |-> the returned dict, events |-> the sqlite3      *)
(* calls made, in order]; the execute event carries the SQL it was given.   *)

\* a data frame: the number of rows and, per column, name, dtype and nunique()
DataFrame(nrows, cols) == [nrows |-> nrows, cols |-> cols]
EmptyDataFrame == DataFrame(0, <<>>)

ColumnNames(frame) == [i \in 1..Len(frame.cols) |-> frame.cols[i].name]

\* the try body after the validation: how it ends, whether conn was assigned,
\* and the sqlite3 calls it made; a call that raises is followed by "raised"
RunQueryBody(q, outcome) ==
    LET Connect == [op |-> "connect"]
        Execute == [op |-> "execute", sql |-> q]
        Fetchall(n) == [op |-> "fetchall", rows |-> n]
        Raised(at, exc) == [op |-> "raised", at |-> at, exc |-> exc, text |-> outcome.text]
    IN  CASE outcome.kind = "connect_error" ->
               [out |-> Raises("sqlite3.Error", outcome.text), conn |-> FALSE,
                events |-> <<Connect, Raised("connect", "sqlite3.Error")>>]
          [] outcome.kind = "connect_other" ->
               [out |-> Raises("Exception", outcome.text), conn |-> FALSE,
                events |-> <<Connect, Raised("connect", "Exception")>>]
          [] outcome.kind = "sql_error" ->
               [out |-> Raises("sqlite3.Error", outcome.text), conn |-> TRUE,
                events |-> <<Connect, Execute, Raised("execute", "sqlite3.Error")>>]
          [] outcome.kind = "other_error" ->
               [out |-> Raises("Exception", outcome.text), conn |-> TRUE,
                events |-> <<Connect, Execute, Raised("execute", "Exception")>>]
          [] outcome.kind = "fetch_error" ->
               [out |-> Raises("sqlite3.Error", outcome.text), conn |-> TRUE,
                events |-> <<Connect, Execute, Raised("fetchall", "sqlite3.Error")>>]
          [] outcome.kind = "rows" /\ outcome.df.nrows > 0 ->
               [out |-> Returns([status |-> "success",
                                 data |-> DataFrame(outcome.df.nrows, outcome.df.cols),
                                 row_count |-> outcome.df.nrows,
                                 execution_time |-> F(outcome.time),
                                 columns |-> ColumnNames(outcome.df)]),
                conn |-> TRUE,
                events |-> <<Connect, Execute, Fetchall(outcome.df.nrows)>>]
          [] OTHER ->
               [out |-> Returns([status |-> "success", data |-> EmptyDataFrame,
                                 row_count |-> 0,
                                 execution_time |-> F(outcome.time),
                                 message |-> "Query executed successfully but returned no results"]),
                conn |-> TRUE,
                events |-> <<Connect, Execute, Fetchall(0)>>]

\* the finally clause: `if conn: conn.close()`
Finally(body, result) ==
    [result |-> result,
     events |-> IF body.conn THEN Append(body.events, [op |-> "close"]) ELSE body.events]

RunQuery_only_database_errors(q, outcome) ==
    LET Except(out) ==
            IF out.kind = "return" THEN out.v
            ELSE IF out.exc = "sqlite3.Error"
            THEN [status |-> "error", message |-> "Database error: " \o out.text]
            ELSE out
        Caught(body) == Finally(body, Except(body.out))
    IN  Caught(RunQueryBody(q, outcome))

\* the try body with its except clauses and its finally clause
RunQuery(q, outcome) ==
    LET Except(out) ==
            IF out.kind = "return" THEN out.v
            ELSE IF out.exc = "sqlite3.Error"
            THEN [status |-> "error", message |-> "Database error: " \o out.text]
            ELSE [status |-> "error", message |-> "Execution error: " \o out.text]
        Caught(body) == Finally(body, Except(body.out))
    IN  Caught(RunQueryBody(q, outcome))

execute_query_unvalidated(q, outcome) == RunQuery(q, outcome)

execute_query(q, outcome) ==
    LET Validated(v) ==
            IF ~v.ok
            THEN [result |-> [status |-> "error", message |-> v.message], events |-> <<>>]
            ELSE RunQuery(q, outcome)
    IN  Validated(is_safe_query(q))

-----------------------------------------------------------------------------
(* DatabaseManager.get_schema.  The database file is                        *)
(*   [path, exists, readable, size, tables]: db_path, whether the file is   *)
(*   there, whether sqlite3 can read it, its size, and its tables in the    *)
(*   order sqlite_master lists them.                                        *)
(* A table is [name, columns, row_count, fails]: the rows of PRAGMA         *)
(* table_info, the row count, and the statement of the loop body that raises*)
(* for it: "pragma", "count", "sample" (SELECT * ... LIMIT 1) or "none".    *)

\* one entry of "columns", from a row of PRAGMA table_info
ColumnInfo(col) ==
    [name |-> col.name,
     type |-> IF col.type = "" THEN "TEXT" ELSE col.type,
     notnull |-> col.notnull # 0,
     pk |-> col.pk # 0,
     default |-> col.dflt_value]

\* schema_info[table_name]
TableInfo(table) ==
    [columns |-> [i \in 1..Len(table.columns) |-> ColumnInfo(table.columns[i])],
     row_count |-> table.row_count,
     has_data |-> table.row_count > 0]

NoTables == [schema_info |-> <<>>, total_rows |-> 0, total_columns |-> 0]

\* one iteration of the loop over the tables: the totals are added to before
\* the sample row is read, the entry of schema_info is written after it
ReadTable(acc, table) ==
    IF table.fails \in {"pragma", "count"} THEN acc
    ELSE IF table.fails = "sample"
    THEN [acc EXCEPT !.total_rows = @ + table.row_count,
                     !.total_columns = @ + Len(table.columns)]
    ELSE [schema_info |-> (table.name :> TableInfo(table)) @@ acc.schema_info,
          total_rows |-> acc.total_rows + table.row_count,
          total_columns |-> acc.total_columns + Len(table.columns)]

RECURSIVE ReadTables(_, _)
ReadTables(acc, tables) ==
    IF tables = <<>> THEN acc
    ELSE ReadTables(ReadTable(acc, Head(tables)), Tail(tables))

\* the returned tuple (schema_info, db_stats)
SchemaAndStats(schema_info, db_stats) == [schema |-> schema_info, stats |-> db_stats]

get_schema(database) ==
    LET Stats(acc) ==
            SchemaAndStats(D(acc.schema_info),
                           D([total_tables |-> Cardinality(DOMAIN acc.schema_info),
                              total_rows |-> acc.total_rows,
                              total_columns |-> acc.total_columns,
                              database_size |-> database.size]))
    IN  IF ~Truthy(database.path) \/ ~database.exists
        THEN SchemaAndStats(None, None)
        ELSE IF ~database.readable
        THEN SchemaAndStats(None, None)
        ELSE IF database.tables = <<>>
        THEN SchemaAndStats(D(<<>>),
                            D([total_tables |-> 0, total_rows |-> 0, total_columns |-> 0]))
        ELSE Stats(ReadTables(NoTables, database.tables))

-----------------------------------------------------------------------------
(* json.loads on the JSON the inputs use: objects, arrays, strings without *)
(* escape sequences, non-negative integers, true, false, null.             *)

JsonWs == {" ", "\t", "\n", "\r"}

SkipWs(s) == SubSeq(s, First(s, JsonWs, FALSE), Len(s))

\* the number of characters before the closing quote, -1 when the string is
\* unterminated or holds a control character
EndsString == {"\"", "\n", "\t", "\r", "\f"}
StringLen(s) ==
    LET i == First(s, EndsString, TRUE) IN
    IF i <= Len(s) /\ Ch(s, i) = "\"" THEN i - 1 ELSE -1

DigitChars == {Ch(Digits, i) : i \in 1..Len(Digits)}
DigitsLen(s) == First(s, DigitChars, FALSE) - 1

RECURSIVE DecimalValue(_)
DecimalValue(s) ==
    IF s = "" THEN 0
    ELSE 10 * DecimalValue(SubSeq(s, 1, Len(s) - 1)) + (IndexIn(Ch(s, Len(s)), Digits) - 1)

ParseFail == [ok |-> FALSE]
Parsed(v, rest) == [ok |-> TRUE, v |-> v, rest |-> rest]

ParseString(s) ==
    LET n == StringLen(Tail(s)) IN
    IF n < 0 THEN ParseFail ELSE Parsed(S(SubSeq(s, 2, n + 1)), SubSeq(s, n + 3, Len(s)))

ParseNumber(s) ==
    LET n == IF Ch(s, 1) = "0" THEN 1 ELSE DigitsLen(s) IN
    Parsed(I(DecimalValue(SubSeq(s, 1, n))), SubSeq(s, n + 1, Len(s)))

RECURSIVE ParseValue(_), ParseMembers(_, _), ParseElements(_, _)

ParseValue(s) ==
    CASE s = "" -> ParseFail
      [] StartsWith(s, "{") ->
           LET t == SkipWs(Tail(s)) IN
           IF StartsWith(t, "}") THEN Parsed(D(<<>>), Tail(t)) ELSE ParseMembers(t, <<>>)
      [] StartsWith(s, "[") ->
           LET t == SkipWs(Tail(s)) IN
           IF StartsWith(t, "]") THEN Parsed(L(<<>>), Tail(t)) ELSE ParseElements(t, <<>>)
      [] StartsWith(s, "\"") -> ParseString(s)
      [] StartsWith(s, "null") -> Parsed(None, SubSeq(s, 5, Len(s)))
      [] StartsWith(s, "true") -> Parsed(B(TRUE), SubSeq(s, 5, Len(s)))
      [] StartsWith(s, "false") -> Parsed(B(FALSE), SubSeq(s, 6, Len(s)))
      [] IndexIn(Ch(s, 1), Digits) > 0 -> ParseNumber(s)
      [] OTHER -> ParseFail

\* s stands at a member "key": value; a repeated key keeps its last value
ParseMembers(s, acc) ==
    LET AfterMember(u, acc2) ==
            IF StartsWith(u, "}") THEN Parsed(D(acc2), Tail(u))
            ELSE IF StartsWith(u, ",") THEN ParseMembers(SkipWs(Tail(u)), acc2)
            ELSE ParseFail
        AfterValue(key, val) ==
            IF ~val.ok THEN ParseFail
            ELSE AfterMember(SkipWs(val.rest), (key :> val.v) @@ acc)
        AfterKey(k, t) ==
            IF ~k.ok \/ ~StartsWith(t, ":") THEN ParseFail
            ELSE AfterValue(k.v.v, ParseValue(SkipWs(Tail(t))))
        AtKey(k) == AfterKey(k, IF k.ok THEN SkipWs(k.rest) ELSE "")
    IN  IF ~StartsWith(s, "\"") THEN ParseFail ELSE AtKey(ParseString(s))

ParseElements(s, acc) ==
    LET AfterElement(u, acc2) ==
            IF StartsWith(u, "]") THEN Parsed(L(acc2), Tail(u))
            ELSE IF StartsWith(u, ",") THEN ParseElements(SkipWs(Tail(u)), acc2)
            ELSE ParseFail
        AfterValue(val) ==
            IF ~val.ok THEN ParseFail
            ELSE AfterElement(SkipWs(val.rest), Append(acc, val.v))
    IN  AfterValue(ParseValue(s))

\* json.loads(text): [ok |-> TRUE, v |-> value], or [ok |-> FALSE] for JSONDecodeError
json_loads(text) ==
    LET Whole(r) ==
            IF r.ok /\ SkipWs(r.rest) = "" THEN [ok |-> TRUE, v |-> r.v] ELSE ParseFail
    IN  Whole(ParseValue(SkipWs(text)))

\* s.replace(pat, "")
RECURSIVE RemoveAll(_, _)
RemoveAll(s, pat) ==
    IF ~Contains(s, pat) THEN s
    ELSE LET i == CHOOSE i \in 1..Len(s) :
                      /\ SubSeq(s, i, i + Len(pat) - 1) = pat
                      /\ \A j \in 1..(i - 1) : SubSeq(s, j, j + Len(pat) - 1) # pat
         IN  SubSeq(s, 1, i - 1) \o RemoveAll(SubSeq(s, i + Len(pat), Len(s)), pat)

\* A TLA+ string cannot hold the backtick: the model writes ~ for it, so a
\* markdown fence is ~~~ and no input uses ~ for anything else.
Fence == "~~~"

\* text.strip().replace(fence + "json", "").replace(fence, "").strip()
StripFences(text) == Strip(RemoveAll(RemoveAll(Strip(text), Fence \o "json"), Fence))

-----------------------------------------------------------------------------
(* AIManager._try_generate_with_models.  What a request yields is the       *)
(* environment's choice: a response with its text, or an error with the     *)
(* text str(e) of the Exception e that was raised.                          *)

MODEL_NAMES ==
    <<"gemini-2.5-flash", "gemini-2.5-flash", "gemini-2.5-pro",
      "gemini-1.5-flash", "gemini-1.5-pro", "gemini-pro">>

IsNotFound(error_str) == Contains(error_str, "404") \/ Contains(error_str, "NOT_FOUND")

\* the loop before its first iteration
LoopStart == [i |-> 1, requests |-> <<>>, status |-> "trying", value |-> None]
\* no call in progress
LoopIdle == [i |-> 0, requests |-> <<>>, status |-> "idle", value |-> None]

LoopAtEnd(model_names, st) == st.i > Len(model_names)

\* the loop's exit: return None
LoopExit(st) == [st EXCEPT !.status = "returned", !.value = None]

TryStep_any_error_skips(model_names, st, outcome) ==
    LET made == [st EXCEPT !.requests =
                    Append(@, [model |-> model_names[st.i], outcome |-> outcome])]
    IN  IF outcome.kind = "response"
        THEN [made EXCEPT !.status = "returned", !.value = outcome]
        ELSE [made EXCEPT !.i = @ + 1]

TryStep_not_found_returns_none(model_names, st, outcome) ==
    LET made == [st EXCEPT !.requests =
                    Append(@, [model |-> model_names[st.i], outcome |-> outcome])]
    IN  IF outcome.kind = "response"
        THEN [made EXCEPT !.status = "returned", !.value = outcome]
        ELSE IF IsNotFound(outcome.text)
        THEN [made EXCEPT !.status = "returned", !.value = None]
        ELSE [made EXCEPT !.status = "raised", !.value = outcome]

\* one iteration of the for loop: request model_names[st.i]
TryStep(model_names, st, outcome) ==
    LET made == [st EXCEPT !.requests =
                    Append(@, [model |-> model_names[st.i], outcome |-> outcome])]
    IN  IF outcome.kind = "response"
        THEN [made EXCEPT !.status = "returned", !.value = outcome]
        ELSE IF IsNotFound(outcome.text)
        THEN [made EXCEPT !.i = @ + 1]
        ELSE [made EXCEPT !.status = "raised", !.value = outcome]

\* the whole call, against a script: outcomes[k] is what the k-th request yields
RECURSIVE RunLoop(_, _, _)
RunLoop(model_names, st, outcomes) ==
    IF st.status # "trying" THEN st
    ELSE IF LoopAtEnd(model_names, st) THEN LoopExit(st)
    ELSE RunLoop(model_names, TryStep(model_names, st, outcomes[st.i]), outcomes)

try_generate_with_models(model_names, outcomes) == RunLoop(model_names, LoopStart, outcomes)

-----------------------------------------------------------------------------
(* AIManager.generate_sql, from the point where the loop has ended.  The    *)
(* try body either returns a dict or raises; the except clauses turn every  *)
(* Exception into an error dict.                                            *)

ErrorDict(message) == D([status |-> S("error"), message |-> message])
NoAttribute(x, attr) ==
    Raises("AttributeError", "'" \o x.t \o "' object has no attribute '" \o attr \o "'")

generate_sql_body_no_status_check(st) ==
    IF st.status = "raised" THEN Raises("Exception", st.value.text)
    ELSE IF st.value = None
    THEN Returns(ErrorDict(S("None of the tried models are available. Please check your API key and model availability.")))
    ELSE IF ~IsStr(st.value.text) THEN NoAttribute(st.value.text, "strip")
    ELSE LET Loaded(result) ==
                 IF ~result.ok THEN Raises("JSONDecodeError", "Expecting value")
                 ELSE IF IsDict(result.v) THEN Returns(result.v)
                 ELSE NoAttribute(result.v, "get")
         IN  Loaded(json_loads(StripFences(st.value.text.v)))

generate_sql_body(st) ==
    IF st.status = "raised" THEN Raises("Exception", st.value.text)
    ELSE IF st.value = None
    THEN Returns(ErrorDict(S("None of the tried models are available. Please check your API key and model availability.")))
    ELSE IF ~IsStr(st.value.text) THEN NoAttribute(st.value.text, "strip")
    ELSE LET Loaded(result) ==
                 IF ~result.ok THEN Raises("JSONDecodeError", "Expecting value")
                 ELSE IF IsDict(result.v) /\ Get(result.v, "status", None) = S("success")
                 THEN Returns(result.v)
                 ELSE IF IsDict(result.v)
                 THEN Returns(ErrorDict(Get(result.v, "message", S("Invalid AI response"))))
                 ELSE NoAttribute(result.v, "get")
         IN  Loaded(json_loads(StripFences(st.value.text.v)))

\* `available` is what list_available_models returns in the 404 branch
generate_sql(st, available) ==
    LET Except(r) ==
            IF r.kind = "return" THEN r.v
            ELSE IF r.exc = "JSONDecodeError" THEN ErrorDict(S("AI returned invalid JSON"))
            ELSE IF IsNotFound(r.text) /\ available # ""
            THEN ErrorDict(S("AI error: " \o r.text \o "\n\nAvailable models: " \o available))
            ELSE ErrorDict(S("AI error: " \o r.text))
    IN  Except(generate_sql_body(st))

-----------------------------------------------------------------------------
(* AIManager.generate_suggestions, from the point where the loop has ended. *)
(* Its list of model names is the list of generate_sql.                     *)

\* s.find(c) and s.rfind(c) for one character c: the 0-based index, or -1
StrFind(s, c) == IF First(s, {c}, TRUE) > Len(s) THEN -1 ELSE First(s, {c}, TRUE) - 1

StrRFind(s, c) ==
    IF \E i \in 1..Len(s) : Ch(s, i) = c
    THEN (CHOOSE i \in 1..Len(s) :
             Ch(s, i) = c /\ \A j \in (i + 1)..Len(s) : Ch(s, j) # c) - 1
    ELSE -1

\* text[start:end] from the first "[" to the last "]", when there is such a span
Bracketed(text) ==
    LET Cut(start, end) ==
            IF start >= 0 /\ end > start THEN SubSeq(text, start + 1, end) ELSE text
    IN  Cut(StrFind(text, "["), StrRFind(text, "]") + 1)

\* re.sub(r"\s*\([^)]*\)", "", s): from the left, whitespace followed by "("
\* is removed up to the next ")", when there is one
RECURSIVE RemoveParenthesised(_)
RemoveParenthesised(s) ==
    LET Sub(open) ==
            IF /\ open <= Len(s)
               /\ Ch(s, open) = "("
               /\ First(SubSeq(s, open + 1, Len(s)), {")"}, TRUE) <= Len(s) - open
            THEN RemoveParenthesised(
                     SubSeq(s, open + 1 + First(SubSeq(s, open + 1, Len(s)), {")"}, TRUE),
                            Len(s)))
            ELSE Ch(s, 1) \o RemoveParenthesised(Tail(s))
    IN  IF s = "" THEN "" ELSE Sub(First(s, SpaceChars, FALSE))

\* the clean of one suggestion
CleanOne(item) == Strip(RemoveParenthesised(PyStr(item)))

Cleaned_keeps_empty(items) ==
    [i \in 1..Min(3, Len(items)) |-> S(CleanOne(items[i]))]

\* the cleaned list: the first three suggestions, cleaned, those left empty dropped
Cleaned(items) ==
    SelectSeq([i \in 1..Min(3, Len(items)) |-> S(CleanOne(items[i]))],
              LAMBDA clean : clean.v # "")

get_default_suggestions ==
    L(<<S("Show me the first 10 rows of data"),
        S("What are the total record counts per table?"),
        S("Show summary statistics for numeric columns")>>)

\* the try body; schema.items() raises for a schema that is no dict
generate_suggestions_body(schema, st) ==
    IF ~IsDict(schema) THEN NoAttribute(schema, "items")
    ELSE IF st.status = "raised" THEN Raises("Exception", st.value.text)
    ELSE IF st.value = None THEN Returns(get_default_suggestions)
    ELSE IF ~IsStr(st.value.text) THEN NoAttribute(st.value.text, "strip")
    ELSE LET Loaded(result) ==
                 IF ~result.ok THEN Raises("JSONDecodeError", "Expecting value")
                 ELSE IF result.v.t = "list" /\ Cleaned(result.v.v) # <<>>
                 THEN Returns(L(Cleaned(result.v.v)))
                 ELSE Returns(get_default_suggestions)
         IN  Loaded(json_loads(Bracketed(StripFences(st.value.text.v))))

generate_suggestions(schema, st) ==
    LET Except(r) == IF r.kind = "return" THEN r.v ELSE get_default_suggestions
    IN  Except(generate_suggestions_body(schema, st))

-----------------------------------------------------------------------------
(* Validator.validate_dataframe and VisualizationManager.  A column of a    *)
(* data frame is [name, dtype, nunique]: its label, its pandas dtype and    *)
(* the number of distinct values it holds.                                  *)

MAX_ROWS_VISUALIZATION == 500
MAX_UNIQUE_CATEGORIES == 20
BarMaxRows == 50
ScatterMaxRows == 100

IsDataFrame(x) == "nrows" \in DOMAIN x

\* df is not None and isinstance(df, pd.DataFrame) and not df.empty
validate_dataframe(x) ==
    /\ x # None
    /\ IsDataFrame(x)
    /\ ~(x.nrows = 0 \/ x.cols = <<>>)

\* the selector of select_dtypes(include=[...]) that a dtype answers to
DtypeKind(dtype) ==
    CASE dtype \in {"int64", "float64"} -> "number"
      [] dtype = "datetime64[ns]" -> "datetime64"
      [] OTHER -> dtype

\* df.select_dtypes(include=include).columns.tolist()
select_dtypes(frame, include) ==
    LET Labels(picked) == [i \in 1..Len(picked) |-> picked[i].name] IN
    Labels(SelectSeq(frame.cols, LAMBDA c : DtypeKind(c.dtype) \in include))

\* df[col]: the columns labelled col.  With one such column it is a Series;
\* with several it is a DataFrame, whose nunique() is a Series, and the truth
\* value of a comparison on it raises ValueError.
Labelled(frame, col) == SelectSeq(frame.cols, LAMBDA c : c.name = col)

IsSeries(columns) == Len(columns) = 1

AllAboveMaxCategories_wrong_limit(frame, cols) ==
    LET Ends(k) == \/ ~IsSeries(Labelled(frame, cols[k]))
                   \/ Labelled(frame, cols[k])[1].nunique <= MAX_ROWS_VISUALIZATION
        Ended(k) == IF IsSeries(Labelled(frame, cols[k])) THEN "False" ELSE "ValueError"
    IN  IF \A k \in 1..Len(cols) : ~Ends(k) THEN "True"
        ELSE Ended(CHOOSE k \in 1..Len(cols) : Ends(k) /\ \A j \in 1..(k - 1) : ~Ends(j))

\* all(df[col].nunique() > MAX_UNIQUE_CATEGORIES for col in cols), evaluated
\* column by column: "True", "False", or "ValueError" when it is raised
AllAboveMaxCategories(frame, cols) ==
    LET Ends(k) == \/ ~IsSeries(Labelled(frame, cols[k]))
                   \/ Labelled(frame, cols[k])[1].nunique <= MAX_UNIQUE_CATEGORIES
        Ended(k) == IF IsSeries(Labelled(frame, cols[k])) THEN "False" ELSE "ValueError"
    IN  IF \A k \in 1..Len(cols) : ~Ends(k) THEN "True"
        ELSE Ended(CHOOSE k \in 1..Len(cols) : Ends(k) /\ \A j \in 1..(k - 1) : ~Ends(j))

Chart(type, x, y, title) == [type |-> type, x |-> x, y |-> y, title |-> title]

detect_opportunity_scatter_first(frame, query_type) ==
    IF ~validate_dataframe(frame) THEN None
    ELSE IF frame.nrows > MAX_ROWS_VISUALIZATION THEN None
    ELSE LET Detect(numeric_cols, categorical_cols, date_cols) ==
                 IF categorical_cols # <<>>
                    /\ AllAboveMaxCategories(frame, categorical_cols) # "False"
                 THEN None
                 ELSE IF Len(numeric_cols) >= 2 /\ frame.nrows <= ScatterMaxRows
                 THEN Chart("scatter", numeric_cols[1], numeric_cols[2],
                            numeric_cols[2] \o " vs " \o numeric_cols[1])
                 ELSE IF numeric_cols # <<>> /\ categorical_cols # <<>>
                         /\ frame.nrows <= BarMaxRows
                         /\ ~IsSeries(Labelled(frame, categorical_cols[1]))
                 THEN None
                 ELSE IF numeric_cols # <<>> /\ categorical_cols # <<>>
                         /\ frame.nrows <= BarMaxRows
                         /\ Labelled(frame, categorical_cols[1])[1].nunique
                               <= MAX_UNIQUE_CATEGORIES
                 THEN Chart("bar", categorical_cols[1], numeric_cols[1],
                            numeric_cols[1] \o " by " \o categorical_cols[1])
                 ELSE IF date_cols # <<>> /\ numeric_cols # <<>>
                 THEN Chart("line", date_cols[1], numeric_cols[1],
                            numeric_cols[1] \o " over time")
                 ELSE None
         IN  Detect(select_dtypes(frame, {"number"}),
                    select_dtypes(frame, {"object", "category"}),
                    select_dtypes(frame, {"datetime64"}))

detect_opportunity_no_row_limit(frame, query_type) ==
    IF ~validate_dataframe(frame) THEN None
    ELSE LET Detect(numeric_cols, categorical_cols, date_cols) ==
                 IF categorical_cols # <<>>
                    /\ AllAboveMaxCategories(frame, categorical_cols) # "False"
                 THEN None
                 ELSE IF numeric_cols # <<>> /\ categorical_cols # <<>>
                         /\ frame.nrows <= BarMaxRows
                         /\ ~IsSeries(Labelled(frame, categorical_cols[1]))
                 THEN None
                 ELSE IF numeric_cols # <<>> /\ categorical_cols # <<>>
                         /\ frame.nrows <= BarMaxRows
                         /\ Labelled(frame, categorical_cols[1])[1].nunique
                               <= MAX_UNIQUE_CATEGORIES
                 THEN Chart("bar", categorical_cols[1], numeric_cols[1],
                            numeric_cols[1] \o " by " \o categorical_cols[1])
                 ELSE IF Len(numeric_cols) >= 2 /\ frame.nrows <= ScatterMaxRows
                 THEN Chart("scatter", numeric_cols[1], numeric_cols[2],
                            numeric_cols[2] \o " vs " \o numeric_cols[1])
                 ELSE IF date_cols # <<>> /\ numeric_cols # <<>>
                 THEN Chart("line", date_cols[1], numeric_cols[1],
                            numeric_cols[1] \o " over time")
                 ELSE None
         IN  Detect(select_dtypes(frame, {"number"}),
                    select_dtypes(frame, {"object", "category"}),
                    select_dtypes(frame, {"datetime64"}))

\* every `return None` of the except clause is written where the exception
\* (ValueError, from a column label that is not unique) is raised
detect_opportunity(frame, query_type) ==
    IF ~validate_dataframe(frame) THEN None
    ELSE IF frame.nrows > MAX_ROWS_VISUALIZATION THEN None
    ELSE LET Detect(numeric_cols, categorical_cols, date_cols) ==
                 IF categorical_cols # <<>>
                    /\ AllAboveMaxCategories(frame, categorical_cols) # "False"
                 THEN None
                 ELSE IF numeric_cols # <<>> /\ categorical_cols # <<>>
                         /\ frame.nrows <= BarMaxRows
                         /\ ~IsSeries(Labelled(frame, categorical_cols[1]))
                 THEN None
                 ELSE IF numeric_cols # <<>> /\ categorical_cols # <<>>
                         /\ frame.nrows <= BarMaxRows
                         /\ Labelled(frame, categorical_cols[1])[1].nunique
                               <= MAX_UNIQUE_CATEGORIES
                 THEN Chart("bar", categorical_cols[1], numeric_cols[1],
                            numeric_cols[1] \o " by " \o categorical_cols[1])
                 ELSE IF Len(numeric_cols) >= 2 /\ frame.nrows <= ScatterMaxRows
                 THEN Chart("scatter", numeric_cols[1], numeric_cols[2],
                            numeric_cols[2] \o " vs " \o numeric_cols[1])
                 ELSE IF date_cols # <<>> /\ numeric_cols # <<>>
                 THEN Chart("line", date_cols[1], numeric_cols[1],
                            numeric_cols[1] \o " over time")
                 ELSE None
         IN  Detect(select_dtypes(frame, {"number"}),
                    select_dtypes(frame, {"object", "category"}),
                    select_dtypes(frame, {"datetime64"}))

\* VisualizationManager.create: the figure, or None when plotly raises, which
\* is the environment's choice plotly_ok
create(frame, config, plotly_ok) ==
    IF config.type \in {"bar", "scatter", "line"} /\ plotly_ok
    THEN [figure |-> config.type, x |-> config.x, y |-> config.y, title |-> config.title]
    ELSE None

-----------------------------------------------------------------------------
(* ChatSessionManager and SessionState, on st.session_state.  A message is  *)
(* a record of Python values and has only the keys its dict has.  The clock *)
(* stands still: every reading of it gives Clock.                           *)

MaxChatSessions == 50
TitleLength == 50
SidebarRows == 10

Clock == [epoch |-> "1700000000",
          strftime |-> "2024-01-01 00:00:00",
          isoformat |-> "2024-01-01T00:00:00"]

\* SessionState.initialize: the defaults of the keys the chat handlers use
SessionStateDefaults ==
    [messages |-> <<>>, query_history |-> <<>>, chat_sessions |-> <<>>,
     current_session_id |-> None, session_counter |-> 0,
     total_queries_executed |-> 0]

\* f"session_{st.session_state.session_counter}_{int(time.time())}"
SessionId(session_counter) ==
    S("session_" \o ToString(session_counter) \o "_" \o Clock.epoch)

IsUserMessage(msg) == RecGet(msg, "role", None) = S("user")

\* the title of save_current: the first user message, cut at 50 characters
Title(messages) ==
    LET Cut(content) ==
            SubSeq(content, 1, Min(TitleLength, Len(content)))
                \o (IF Len(content) > TitleLength THEN "..." ELSE "")
        users == SelectSeq(messages, IsUserMessage)
    IN  IF users = <<>> THEN "New Chat"
        ELSE Cut(PyStr(RecGet(users[1], "content", S(""))))

clean_msg_keeps_result(msg) ==
    [key \in DOMAIN msg |->
        CASE key = "role" -> RecGet(msg, "role", S(""))
          [] key = "content" -> S(PyStr(RecGet(msg, "content", S(""))))
          [] key = "sql_query" -> S(PyStr(msg.sql_query))
          [] key = "execution_time" -> PyFloat(msg.execution_time)
          [] OTHER -> msg[key]]

\* the clean_msg of save_current
clean_msg(msg) ==
    [key \in {"role", "content"} \cup ({"sql_query", "execution_time"} \cap DOMAIN msg) |->
        CASE key = "role" -> RecGet(msg, "role", S(""))
          [] key = "content" -> S(PyStr(RecGet(msg, "content", S(""))))
          [] key = "sql_query" -> S(PyStr(msg.sql_query))
          [] key = "execution_time" -> PyFloat(msg.execution_time)]

session_data(ss) ==
    [id |-> ss.current_session_id,
     title |-> Title(ss.messages),
     timestamp |-> Clock.strftime,
     messages |-> [i \in 1..Len(ss.messages) |-> clean_msg(ss.messages[i])],
     query_history |-> ss.query_history,
     message_count |-> Len(SelectSeq(ss.messages, IsUserMessage))]

\* the index of the first session with this id, 0 for None
existing_index(chat_sessions, id) ==
    IF \E i \in 1..Len(chat_sessions) : chat_sessions[i].id = id
    THEN CHOOSE i \in 1..Len(chat_sessions) :
            /\ chat_sessions[i].id = id
            /\ \A j \in 1..(i - 1) : chat_sessions[j].id # id
    ELSE 0

\* "Update or add session"
UpdateOrAdd(chat_sessions, data) ==
    IF existing_index(chat_sessions, data.id) # 0
    THEN [chat_sessions EXCEPT ![existing_index(chat_sessions, data.id)] = data]
    ELSE <<data>> \o chat_sessions

\* seq[:n]
Slice(seq, n) == SubSeq(seq, 1, Min(n, Len(seq)))

save_current_uncapped(ss) ==
    IF ss.messages = <<>> THEN ss
    ELSE [ss EXCEPT !.chat_sessions = UpdateOrAdd(@, session_data(ss))]

save_current(ss) ==
    IF ss.messages = <<>> THEN ss
    ELSE [ss EXCEPT !.chat_sessions =
             Slice(UpdateOrAdd(@, session_data(ss)), MaxChatSessions)]

\* `if st.session_state.current_session_id and st.session_state.messages`
HasCurrentChat(ss) == Truthy(ss.current_session_id) /\ ss.messages # <<>>

create_new(ss) ==
    LET Fresh(saved) ==
            [saved EXCEPT !.current_session_id = SessionId(ss.session_counter),
                          !.messages = <<>>,
                          !.query_history = <<>>]
        Counted(s) == [s EXCEPT !.session_counter = @ + 1]
    IN  Fresh(IF HasCurrentChat(ss) THEN save_current(Counted(ss)) ELSE Counted(ss))

load(ss, session_id) ==
    LET Open(saved, index) ==
            IF index = 0 THEN saved
            ELSE [saved EXCEPT
                    !.current_session_id = session_id,
                    !.messages = RecGet(saved.chat_sessions[index], "messages", <<>>),
                    !.query_history = RecGet(saved.chat_sessions[index], "query_history", <<>>)]
        Find(saved) == Open(saved, existing_index(saved.chat_sessions, session_id))
    IN  Find(IF HasCurrentChat(ss) THEN save_current(ss) ELSE ss)

delete(ss, session_id) ==
    LET Removed(s) ==
            [s EXCEPT !.chat_sessions = SelectSeq(@, LAMBDA c : c.id # session_id)]
    IN  IF ss.current_session_id = session_id
        THEN create_new(Removed(ss))
        ELSE Removed(ss)

reset_chat(ss) == [ss EXCEPT !.messages = <<>>, !.query_history = <<>>]

-----------------------------------------------------------------------------
(* handle_user_input and what it calls.  The emoji of the message texts are *)
(* written as the marks below.                                              *)

CheckMark == "[ok]"
CrossMark == "[x]"
InfoMark == "[i]"

AppendMessage(ss, msg) == [ss EXCEPT !.messages = Append(@, msg)]

\* the viz_fig of handle_successful_query
VizFig(frame, query_type, plotly_ok) ==
    LET Made(config) == IF config # None THEN create(frame, config, plotly_ok) ELSE None IN
    IF frame.nrows <= MAX_ROWS_VISUALIZATION
    THEN Made(detect_opportunity(frame, query_type))
    ELSE None

handle_successful_query(ss, result, sql_query, explanation, query_type, plotly_ok) ==
    IF result.row_count > 0
    THEN [ss EXCEPT
            !.query_history = Append(@,
                [question |-> RecGet(ss.messages[Len(ss.messages)], "content", None),
                 sql |-> sql_query,
                 rows_returned |-> result.row_count,
                 execution_time |-> result.execution_time,
                 timestamp |-> Clock.isoformat]),
            !.messages = Append(@,
                [role |-> S("assistant"),
                 content |-> S("**" \o PyStr(explanation) \o "**\n\n" \o CheckMark
                               \o " Found " \o Thousands(result.row_count)
                               \o " row(s) in " \o Fixed3(result.execution_time)
                               \o " seconds"),
                 sql_query |-> sql_query,
                 dataframe |-> result.data,
                 execution_time |-> result.execution_time,
                 visualization |-> VizFig(result.data, query_type, plotly_ok)])]
    ELSE AppendMessage(ss,
            [role |-> S("assistant"),
             content |-> S("**" \o PyStr(explanation) \o "**\n\n" \o InfoMark
                           \o " No results found"),
             sql_query |-> sql_query,
             dataframe |-> None,
             execution_time |-> result.execution_time])

handle_query_error(ss, result, sql_query, explanation) ==
    AppendMessage(ss,
        [role |-> S("assistant"),
         content |-> S("**" \o PyStr(explanation) \o "**\n\n" \o CrossMark \o " Error: "
                       \o RecGet(result, "message", "Unknown error occurred")),
         sql_query |-> sql_query,
         dataframe |-> None])

IsSuccess(generated) == Get(generated, "status", None) = S("success")

\* the execute_query call of process_query, made only for a generated query;
\* st.code shows the query whatever its type
process_query_execute(generated, outcome) ==
    IF IsSuccess(generated)
    THEN execute_query(Get(generated, "sql_query", S("")), outcome)
    ELSE [result |-> NoResult, events |-> <<>>]

\* process_query, given what generate_sql and execute_query returned
process_query(ss, generated, executed, plotly_ok) ==
    IF IsSuccess(generated)
    THEN IF executed.result.status = "success"
         THEN handle_successful_query(ss, executed.result,
                  Get(generated, "sql_query", S("")),
                  Get(generated, "explanation", S("Query executed")),
                  Get(generated, "query_type", S("simple_select")),
                  plotly_ok)
         ELSE handle_query_error(ss, executed.result,
                  Get(generated, "sql_query", S("")),
                  Get(generated, "explanation", S("Query executed")))
    ELSE AppendMessage(ss,
            [role |-> S("assistant"),
             content |-> S(CrossMark \o " Could not generate query: "
                           \o PyStr(Get(generated, "message", S("Failed to generate SQL query")))),
             dataframe |-> None])

handle_user_input(ss, prompt, generated, executed, plotly_ok) ==
    LET Counted(s) == [s EXCEPT !.total_queries_executed = @ + 1]
        Asked(s) == AppendMessage(s, [role |-> S("user"), content |-> S(prompt)])
    IN  save_current(Counted(process_query(
            Asked(IF ss.messages # <<>> THEN save_current(ss) ELSE ss),
            generated, executed, plotly_ok)))

-----------------------------------------------------------------------------
(* Inputs of the validator specification *)

MaxChunks == 3

QueryChunks == {"SELECT", "select", " ", "\n", "DROP", "Delete", ";", "x"}

RECURSIVE Texts(_, _)
Texts(chunks, n) ==
    IF n = 0 THEN {""}
    ELSE LET shorter == Texts(chunks, n - 1) IN
         shorter \cup {c \o s : c \in chunks, s \in shorter}

Queries == {S(s) : s \in Texts(QueryChunks, MaxChunks)} \cup {None, I(0), I(7)}

ExecTimes == {1, 2}

SmallFrame ==
    DataFrame(2, <<[name |-> "city", dtype |-> "object", nunique |-> 2],
                   [name |-> "total", dtype |-> "int64", nunique |-> 2]>>)

\* the columns of SmallFrame when the query matches no row
NoRowsFrame ==
    DataFrame(0, <<[name |-> "city", dtype |-> "object", nunique |-> 0],
                   [name |-> "total", dtype |-> "int64", nunique |-> 0]>>)

\* a result of n rows, one per day: a datetime and a numeric column
DailyFrame(n) ==
    DataFrame(n, <<[name |-> "day", dtype |-> "datetime64[ns]", nunique |-> n],
                   [name |-> "total", dtype |-> "int64", nunique |-> n]>>)

DbOutcomes ==
    {[kind |-> "connect_error", text |-> "unable to open database file"],
     [kind |-> "sql_error", text |-> "no such table: x"],
     [kind |-> "other_error", text |-> "boom"],
     [kind |-> "fetch_error", text |-> "database disk image is malformed"],
     [kind |-> "connect_other", text |-> "expected str, bytes or os.PathLike object, not NoneType"]}
    \cup {[kind |-> "rows", df |-> NoRowsFrame, time |-> t] : t \in ExecTimes}
    \cup {[kind |-> "empty", time |-> t] : t \in ExecTimes}
    \cup {[kind |-> "rows", df |-> SmallFrame, time |-> t] : t \in ExecTimes}

-----------------------------------------------------------------------------
(* What each specification leaves untouched *)

ValidatorIdle ==
    /\ query = None
    /\ safe = NoResult
    /\ exec_result = NoResult
    /\ db_events = <<>>

AIIdle ==
    /\ ai = LoopIdle
    /\ sql_result = NoResult

SessionsIdle ==
    /\ session_state = SessionStateDefaults
    /\ calls = <<>>
    /\ used = 0

VizIdle ==
    /\ df = None
    /\ viz_config = NoResult

SuggestIdle ==
    /\ suggest_schema = None
    /\ suggestions = NoResult

SchemaIdle ==
    /\ db = None
    /\ schema_result = NoResult

-----------------------------------------------------------------------------
(* The validator specification: a query is drawn, then validated and run *)

InitValidator ==
    /\ query \in Queries
    /\ safe = NoResult
    /\ exec_result = NoResult
    /\ db_events = <<>>
    /\ AIIdle
    /\ SessionsIdle
    /\ VizIdle
    /\ SuggestIdle
    /\ SchemaIdle

Validate ==
    /\ safe = NoResult
    /\ safe' = is_safe_query(query)
    /\ UNCHANGED <<query, exec_result, db_events, aiVars, sessionVars, vizVars, suggestVars, schemaVars>>

ExecuteQuery(outcome) ==
    LET Return(r) == exec_result' = r.result /\ db_events' = r.events IN
    /\ exec_result = NoResult
    /\ Return(execute_query(query, outcome))
    /\ UNCHANGED <<query, safe, aiVars, sessionVars, vizVars, suggestVars, schemaVars>>

NextValidator ==
    \/ Validate
    \/ \E outcome \in DbOutcomes : ExecuteQuery(outcome)

SpecValidator == InitValidator /\ [][NextValidator]_vars

-----------------------------------------------------------------------------
(* Inputs of the AI specification *)

NotFoundErrors == {"404 models/gemini-pro is not found", "Error NOT_FOUND"}
OtherErrors == {"503 UNAVAILABLE", "API key not valid", "model not_found"}

ResponseTexts ==
    {S(Fence \o "json\n{\"status\": \"success\", \"sql_query\": \"SELECT x\", \"explanation\": \"All x\"}\n" \o Fence),
     S("{\"status\":\"success\",\"sql_query\":\"SELECT x\"}"),
     S(" {\"status\": \"success\", \"sql_query\": \"DROP TABLE x\"} "),
     S("{\"status\": \"success\", \"sql_query\": null}"),
     S("{\"status\": \"success\", \"sql_query\": 7}"),
     S("{\"status\": \"success\"}"),
     S("{\"status\": \"error\", \"message\": \"No such column\"}"),
     S("{\"status\": \"error\"}"),
     S("{\"sql_query\": \"SELECT x\"}"),
     S("{\"status\": \"Success\", \"sql_query\": \"SELECT x\"}"),
     S("{\"status\": true}"),
     S("{}"),
     S("[\"success\"]"),
     S("\"success\""),
     S("null"),
     S("Here is your query: SELECT x"),
     S("{\"status\": \"success\""),
     S("{\"status\": \"success\"} done"),
     S(Fence \o "sql\nSELECT x\n" \o Fence),
     S(""),
     None}

RequestOutcomes ==
    {[kind |-> "response", text |-> t] : t \in ResponseTexts}
    \cup {[kind |-> "error", text |-> e] : e \in NotFoundErrors \cup OtherErrors}

AvailableModels == {"", "models/gemini-2.0-flash"}

-----------------------------------------------------------------------------
(* The AI specification: one call of generate_sql, request by request *)

InitAI ==
    /\ ValidatorIdle
    /\ ai = LoopStart
    /\ sql_result = NoResult
    /\ SessionsIdle
    /\ VizIdle
    /\ SuggestIdle
    /\ SchemaIdle

\* one iteration of the loop of _try_generate_with_models
Request(outcome) ==
    /\ ai.status = "trying"
    /\ ~LoopAtEnd(MODEL_NAMES, ai)
    /\ ai' = TryStep(MODEL_NAMES, ai, outcome)
    /\ UNCHANGED <<validatorVars, sql_result, sessionVars, vizVars, suggestVars, schemaVars>>

\* the list is exhausted: return None
Exhausted ==
    /\ ai.status = "trying"
    /\ LoopAtEnd(MODEL_NAMES, ai)
    /\ ai' = LoopExit(ai)
    /\ UNCHANGED <<validatorVars, sql_result, sessionVars, vizVars, suggestVars, schemaVars>>

\* the rest of generate_sql, after the loop returned or raised
GenerateSqlReturn(available) ==
    /\ ai.status \in {"returned", "raised"}
    /\ sql_result = NoResult
    /\ sql_result' = generate_sql(ai, available)
    /\ UNCHANGED <<validatorVars, ai, sessionVars, vizVars, suggestVars, schemaVars>>

NextAI ==
    \/ \E outcome \in RequestOutcomes : Request(outcome)
    \/ Exhausted
    \/ \E available \in AvailableModels : GenerateSqlReturn(available)

SpecAI == InitAI /\ [][NextAI]_vars

-----------------------------------------------------------------------------
(* Inputs of the suggestions specification *)

SuggestSchemas ==
    {None,
     D(<<>>),
     D([x |-> [columns |-> <<[name |-> "id", type |-> "INTEGER"]>>, row_count |-> 2]])}

SuggestionTexts ==
    {S("[\"How many x?\", \"Top x?\", \"Sum of x?\"]"),
     S(Fence \o "json\n[\"A?\", \"B?\", \"C?\", \"D?\"]\n" \o Fence),
     S("Here: [\"How many x? (easy)\", \" (x)\"]"),
     S("{\"questions\": [\"How many x?\"]}"),
     S("[\"(a)\", \"  \", \" (b) (c)\"]"),
     S("[\"(a)\", \"Top x?\"]"),
     S("[\"Q (a) b (c\"]"),
     S("[1, null, true]"),
     S("[]"),
     S("{\"a\": 1}"),
     S("\"How many x?\""),
     S("] ["),
     S("[\"A?\"] and [\"B?\"]"),
     S("no json"),
     S(""),
     None}

SuggestOutcomes ==
    {[kind |-> "response", text |-> t] : t \in SuggestionTexts}
    \cup {[kind |-> "error", text |-> e] : e \in NotFoundErrors \cup OtherErrors}

-----------------------------------------------------------------------------
(* The suggestions specification: one call of generate_suggestions *)

InitSuggest ==
    /\ ValidatorIdle
    /\ ai = LoopStart
    /\ sql_result = NoResult
    /\ SessionsIdle
    /\ VizIdle
    /\ SchemaIdle
    /\ suggest_schema \in SuggestSchemas
    /\ suggestions = NoResult

\* one iteration of the loop of _try_generate_with_models
SuggestRequest(outcome) ==
    /\ IsDict(suggest_schema)
    /\ suggestions = NoResult
    /\ ai.status = "trying"
    /\ ~LoopAtEnd(MODEL_NAMES, ai)
    /\ ai' = TryStep(MODEL_NAMES, ai, outcome)
    /\ UNCHANGED <<validatorVars, sql_result, sessionVars, vizVars, suggestVars, schemaVars>>

\* the list is exhausted: return None
SuggestExhausted ==
    /\ IsDict(suggest_schema)
    /\ ai.status = "trying"
    /\ LoopAtEnd(MODEL_NAMES, ai)
    /\ ai' = LoopExit(ai)
    /\ UNCHANGED <<validatorVars, sql_result, sessionVars, vizVars, suggestVars, schemaVars>>

\* the rest of generate_suggestions; for a schema that is no dict the call
\* ends before the loop starts
GenerateSuggestionsReturn ==
    /\ suggestions = NoResult
    /\ ~IsDict(suggest_schema) \/ ai.status \in {"returned", "raised"}
    /\ suggestions' = generate_suggestions(suggest_schema, ai)
    /\ UNCHANGED <<validatorVars, aiVars, sessionVars, vizVars, suggest_schema, schemaVars>>

NextSuggest ==
    \/ \E outcome \in SuggestOutcomes : SuggestRequest(outcome)
    \/ SuggestExhausted
    \/ GenerateSuggestionsReturn

SpecSuggest == InitSuggest /\ [][NextSuggest]_vars

-----------------------------------------------------------------------------
(* Inputs of the schema specification *)

MaxTables == 3

TableColumns ==
    {<<[name |-> "id", type |-> "INTEGER", notnull |-> 1, dflt_value |-> None, pk |-> 1]>>,
     <<[name |-> "id", type |-> "INTEGER", notnull |-> 1, dflt_value |-> None, pk |-> 1],
       [name |-> "name", type |-> "", notnull |-> 0, dflt_value |-> None, pk |-> 0]>>}

TableRowCounts == {0, 3}

TableFailures == {"none", "pragma", "count", "sample"}

\* the i-th table of sqlite_master
TablesAt(i) ==
    {[name |-> "t" \o ToString(i), columns |-> columns, row_count |-> row_count,
      fails |-> fails] :
        columns \in TableColumns, row_count \in TableRowCounts, fails \in TableFailures}

\* the lists of n tables
RECURSIVE TableLists(_)
TableLists(n) ==
    IF n = 0 THEN {<<>>}
    ELSE {Append(tables, t) : tables \in TableLists(n - 1), t \in TablesAt(n)}

DatabaseFile(path, exists, readable, tables) ==
    [path |-> path, exists |-> exists, readable |-> readable, size |-> 8192,
     tables |-> tables]

-----------------------------------------------------------------------------
(* The schema specification: a database file is drawn and get_schema called *)

InitSchema ==
    /\ ValidatorIdle
    /\ AIIdle
    /\ SessionsIdle
    /\ VizIdle
    /\ SuggestIdle
    /\ \/ db \in {DatabaseFile(None, FALSE, FALSE, <<>>),
                   DatabaseFile(S(""), FALSE, FALSE, <<>>),
                   DatabaseFile(S("/tmp/gone.db"), FALSE, FALSE, <<>>),
                   DatabaseFile(S("/tmp/notes.txt"), TRUE, FALSE, <<>>)}
       \/ \E n \in 0..MaxTables : \E tables \in TableLists(n) :
             db = DatabaseFile(S("/tmp/data.db"), TRUE, TRUE, tables)
    /\ schema_result = NoResult

GetSchema ==
    /\ schema_result = NoResult
    /\ schema_result' = get_schema(db)
    /\ UNCHANGED <<validatorVars, aiVars, sessionVars, vizVars, suggestVars, db>>

NextSchema == GetSchema

SpecSchema == InitSchema /\ [][NextSchema]_vars

-----------------------------------------------------------------------------
(* Inputs of the chat specification *)

\* how many calls of the chat handlers a run makes
MaxCalls == 3

Prompts == {"How many x?"}

Response(text) == [kind |-> "response", text |-> S(text)]
Failure(text) == [kind |-> "error", text |-> text]

SelectAnswer == "{\"status\": \"success\", \"sql_query\": \"SELECT x\", \"explanation\": \"All x\"}"

\* what the models do during one call of generate_sql, request by request
ChatScripts ==
    {<<Response(SelectAnswer)>>,
     <<Failure("Error NOT_FOUND"), Response(SelectAnswer)>>,
     <<Response("{\"status\": \"success\", \"sql_query\": null}")>>,
     <<Response("{\"status\": \"success\", \"sql_query\": \"DROP TABLE x\"}")>>,
     <<Response("{\"status\": \"error\", \"message\": \"No such column\"}")>>,
     <<Failure("503 UNAVAILABLE")>>}

ChatDbOutcomes ==
    {[kind |-> "sql_error", text |-> "no such table: x"],
     [kind |-> "empty", time |-> 1],
     [kind |-> "rows", df |-> SmallFrame, time |-> 2],
     [kind |-> "rows", df |-> DailyFrame(MAX_ROWS_VISUALIZATION), time |-> 2],
     [kind |-> "rows", df |-> DailyFrame(MAX_ROWS_VISUALIZATION + 1), time |-> 2]}

\* The chats already held when the run starts: n rounds of "New Chat" and one
\* answered question, played from the defaults.  Round k leaves chat k current
\* and saved in front of the chats of the rounds before it.
PrefillRounds == {0, 50}

PrefillGenerated ==
    generate_sql(try_generate_with_models(MODEL_NAMES, <<Response(SelectAnswer)>>), "")

PrefillExecuted ==
    process_query_execute(PrefillGenerated, [kind |-> "rows", df |-> SmallFrame, time |-> 2])

\* round k, played when no chat is saved yet
Round(k) ==
    handle_user_input(create_new([SessionStateDefaults EXCEPT !.session_counter = k]),
                      "How many x?", PrefillGenerated, PrefillExecuted, TRUE)

AfterRounds(n) ==
    IF n = 0 THEN SessionStateDefaults
    ELSE [Round(n - 1) EXCEPT
            !.chat_sessions = [i \in 1..n |-> Round(n - i).chat_sessions[1]],
            !.total_queries_executed = n]

-----------------------------------------------------------------------------
(* The chat specification: the sidebar buttons and the chat input *)

InitChat ==
    /\ ValidatorIdle
    /\ AIIdle
    /\ VizIdle
    /\ SuggestIdle
    /\ SchemaIdle
    /\ session_state \in {AfterRounds(n) : n \in PrefillRounds}
    /\ calls = <<>>
    /\ used = 0

\* the rows of render_chat_sessions, each with a load and a delete button
SidebarSessions == Slice(session_state.chat_sessions, SidebarRows)

\* "New Chat", and render_chat_interface when there is no current session
CreateNew ==
    /\ used < MaxCalls
    /\ session_state' = create_new(session_state)
    /\ calls' = <<>>
    /\ used' = used + 1
    /\ UNCHANGED <<validatorVars, aiVars, vizVars, suggestVars, schemaVars>>

\* the load button of row i, disabled for the current session
Load(i) ==
    LET \* what is current when load is called
        from == [id |-> session_state.current_session_id,
                 messages |-> session_state.messages,
                 query_history |-> session_state.query_history]
        loads == IF calls # <<>> /\ calls[Len(calls)].op = "load"
                 THEN <<calls[Len(calls)]>> ELSE <<>>
    IN  /\ used < MaxCalls
        /\ i \in 1..Len(SidebarSessions)
        /\ SidebarSessions[i].id # session_state.current_session_id
        /\ session_state' = load(session_state, SidebarSessions[i].id)
        /\ calls' = Append(loads, [op |-> "load", session_id |-> SidebarSessions[i].id,
                                   from |-> from])
        /\ used' = used + 1
        /\ UNCHANGED <<validatorVars, aiVars, vizVars, suggestVars, schemaVars>>

\* the delete button of row i
Delete(i) ==
    /\ used < MaxCalls
    /\ i \in 1..Len(SidebarSessions)
    /\ session_state' = delete(session_state, SidebarSessions[i].id)
    /\ calls' = <<[op |-> "delete", session_id |-> SidebarSessions[i].id,
                   was_current |-> SidebarSessions[i].id = session_state.current_session_id,
                   had_messages |-> session_state.messages # <<>>]>>
    /\ used' = used + 1
    /\ UNCHANGED <<validatorVars, aiVars, vizVars, suggestVars, schemaVars>>

\* "Clear Chat"
ResetChat ==
    /\ used < MaxCalls
    /\ session_state' = reset_chat(session_state)
    /\ calls' = <<>>
    /\ used' = used + 1
    /\ UNCHANGED <<validatorVars, aiVars, vizVars, suggestVars, schemaVars>>

\* the chat input, which render_chat_interface shows once a session is current
HandleUserInput(prompt, script, outcome, plotly_ok) ==
    LET Handled(loop, generated, executed) ==
            /\ ai' = loop
            /\ sql_result' = generated
            /\ exec_result' = executed.result
            /\ db_events' = executed.events
            /\ session_state' = handle_user_input(session_state, prompt, generated,
                                                  executed, plotly_ok)
        Generated(loop, generated) ==
            Handled(loop, generated, process_query_execute(generated, outcome))
        Looped(loop) == Generated(loop, generate_sql(loop, ""))
    IN  /\ used < MaxCalls
        /\ Truthy(session_state.current_session_id)
        /\ Looped(try_generate_with_models(MODEL_NAMES, script))
        /\ calls' = <<[op |-> "ask",
                       total_queries_executed |-> session_state.total_queries_executed]>>
        /\ used' = used + 1
        /\ UNCHANGED <<query, safe, vizVars, suggestVars, schemaVars>>

NextChat ==
    \/ CreateNew
    \/ \E i \in 1..SidebarRows : Load(i)
    \/ \E i \in 1..SidebarRows : Delete(i)
    \/ ResetChat
    \/ \E prompt \in Prompts, script \in ChatScripts, outcome \in ChatDbOutcomes,
          plotly_ok \in BOOLEAN :
          HandleUserInput(prompt, script, outcome, plotly_ok)

SpecChat == InitChat /\ [][NextChat]_vars

-----------------------------------------------------------------------------
(* Inputs of the chart specification *)

MaxColumns == 4

FrameRows == {0, 1, 50, 51, 100, 101, 500, 501}

ColumnDtypes == {"int64", "object", "category", "datetime64[ns]", "bool"}

\* how many distinct values a column of this dtype in a frame of nrows rows holds
Nuniques(dtype, nrows) ==
    IF dtype \in {"object", "category"}
    THEN {Min(nrows, MAX_UNIQUE_CATEGORIES), Min(nrows, MAX_UNIQUE_CATEGORIES + 1)}
    ELSE IF dtype = "bool" THEN {Min(nrows, 2)}
    ELSE {nrows}

\* the i-th column: labelled by its position, or "x" as any other column may be
ColumnsAt(i, nrows) ==
    UNION {{[name |-> name, dtype |-> dtype, nunique |-> nunique] :
               name \in {"c" \o ToString(i), "x"}, nunique \in Nuniques(dtype, nrows)} :
           dtype \in ColumnDtypes}

\* the lists of n columns
RECURSIVE ColumnLists(_, _)
ColumnLists(n, nrows) ==
    IF n = 0 THEN {<<>>}
    ELSE {Append(cols, c) : cols \in ColumnLists(n - 1, nrows), c \in ColumnsAt(n, nrows)}

-----------------------------------------------------------------------------
(* The chart specification: a result is drawn and detect_opportunity is called *)

InitViz ==
    /\ ValidatorIdle
    /\ AIIdle
    /\ SessionsIdle
    /\ SuggestIdle
    /\ SchemaIdle
    /\ \/ df = None
       \/ \E nrows \in FrameRows, n \in 0..MaxColumns :
             \E cols \in ColumnLists(n, nrows) : df = DataFrame(nrows, cols)
    /\ viz_config = NoResult

DetectOpportunity ==
    /\ viz_config = NoResult
    /\ viz_config' = detect_opportunity(df, S("simple_select"))
    /\ UNCHANGED <<validatorVars, aiVars, sessionVars, df, suggestVars, schemaVars>>

NextViz == DetectOpportunity

SpecViz == InitViz /\ [][NextViz]_vars

-----------------------------------------------------------------------------
(* Claims about the validator and execute_query, under SpecValidator *)

Executed(events) == {events[i].sql : i \in {j \in 1..Len(events) : events[j].op = "execute"}}

\* C1: execute_query runs no SQL that is_safe_query did not accept: whatever
\* was executed is the query itself and the validator accepts it, and for a
\* query the validator rejects the result is {status: error, message: the
\* validator's message} and no sqlite3 call (connect, execute) was made.
C1_ValidatedBeforeExecution ==
    exec_result # NoResult =>
        /\ \A sql \in Executed(db_events) : sql = query /\ is_safe_query(sql).ok
        /\ db_events # <<>> => is_safe_query(query).ok
        /\ ~is_safe_query(query).ok =>
              /\ exec_result = [status |-> "error", message |-> is_safe_query(query).message]
              /\ db_events = <<>>

\* a rejected SQL text went through execute_query and nothing was executed
C1_Witness ==
    /\ exec_result # NoResult
    /\ IsStr(query) /\ Contains(query.v, "DROP")
    /\ exec_result = [status |-> "error", message |-> "Dangerous operation detected: DROP"]
    /\ db_events = <<>>

BeginsWithSelectIgnoringCase(s) ==
    /\ Len(s) >= 6
    /\ \A i \in 1..6 : UpperCh(Ch(s, i)) = Ch("SELECT", i)

\* C2: every query is_safe_query accepts is a non-empty string that, trimmed
\* and with letter case ignored, begins with SELECT; an empty or non-string
\* query is rejected with 'Invalid query format'.
C2_AcceptsOnlySelect ==
    safe # NoResult =>
        /\ safe.ok => /\ IsStr(query)
                      /\ query.v # ""
                      /\ BeginsWithSelectIgnoringCase(Strip(query.v))
        /\ (~IsStr(query) \/ query = S("")) =>
              safe = [ok |-> FALSE, message |-> "Invalid query format"]

\* a lower-case select with leading whitespace was accepted
C2_Witness ==
    /\ safe # NoResult /\ safe.ok
    /\ IsStr(query) /\ StartsWith(query.v, " select")

IsWordChar(c) == IndexIn(c, LowerAlpha) > 0 \/ IndexIn(c, UpperAlpha) > 0
                    \/ IndexIn(c, Digits) > 0 \/ c = "_"

\* keyword occurs in text as a SQL word: not inside a longer identifier
ContainsWord(text, keyword) ==
    \E i \in 1..(Len(text) - Len(keyword) + 1) :
        /\ SubSeq(text, i, i + Len(keyword) - 1) = keyword
        /\ i = 1 \/ ~IsWordChar(Ch(text, i - 1))
        /\ i + Len(keyword) > Len(text) \/ ~IsWordChar(Ch(text, i + Len(keyword)))

ContainsDangerousWord(text) ==
    \E k \in 1..Len(DANGEROUS_KEYWORDS) : ContainsWord(Upper(text), DANGEROUS_KEYWORDS[k])

\* C3: is_safe_query rejects every statement that contains a keyword of
\* DANGEROUS_KEYWORDS as a SQL word, whatever the letter case and whatever
\* characters (';', '(', ')') are adjacent to the keyword.
C3_RejectsEveryDangerousWord ==
    (safe # NoResult /\ IsStr(query) /\ ContainsDangerousWord(query.v)) => ~safe.ok

-----------------------------------------------------------------------------
(* Claims about AIManager, under SpecAI *)

FailedNotFound(req) ==
    /\ req.outcome.kind = "error"
    /\ Contains(req.outcome.text, "404") \/ Contains(req.outcome.text, "NOT_FOUND")

FailedOtherwise(req) ==
    /\ req.outcome.kind = "error"
    /\ ~Contains(req.outcome.text, "404")
    /\ ~Contains(req.outcome.text, "NOT_FOUND")

C6_Loop ==
    LET reqs == ai.requests
        n == Len(ai.requests)
    IN  \* at most one request per list entry, in list order
        /\ n <= Len(MODEL_NAMES)
        /\ \A k \in 1..n : reqs[k].model = MODEL_NAMES[k]
        \* a later model is requested only after a not-found failure
        /\ \A k \in 1..(n - 1) : FailedNotFound(reqs[k])
        /\ ai.status = "trying" =>
              /\ ai.i = n + 1
              /\ \A k \in 1..n : FailedNotFound(reqs[k])
        \* the first success is returned, and it is the last request made
        /\ \A k \in 1..n : reqs[k].outcome.kind = "response" =>
              k = n /\ ai.status = "returned" /\ ai.value = reqs[k].outcome
        \* None is returned exactly when every name failed with not-found
        /\ ai.status \in {"returned", "raised"} =>
              ((ai.status = "returned" /\ ai.value = None)
                  <=> (n = Len(MODEL_NAMES) /\ \A k \in 1..n : FailedNotFound(reqs[k])))

\* the loop can take its next step: another request, or the exit
LoopCanStep == ENABLED ((\E outcome \in RequestOutcomes : Request(outcome)) \/ Exhausted)

\* C6: _try_generate_with_models requests the names strictly in list order,
\* at most once per list entry; it returns the response of the first model
\* that succeeds and requests no later one; it goes on to the next name after
\* a failure whose text contains 404 or NOT_FOUND; it returns None exactly
\* when every name failed that way; and every call ends: a loop that has not
\* ended has made fewer requests than its position, which never exceeds
\* the length of the list by more than one, and it can take its next step.
C6_FallbackInOrderAndTerminates ==
    /\ C6_Loop
    /\ ai.status = "trying" =>
          /\ ai.i <= Len(MODEL_NAMES) + 1
          /\ LoopCanStep

\* the third model answered after two not-found failures
C6_Witness ==
    /\ ai.status = "returned"
    /\ Len(ai.requests) = 3
    /\ ai.value = ai.requests[3].outcome
    /\ ai.value.kind = "response"

GotText == ai.status = "returned" /\ ai.value # None /\ IsStr(ai.value.text)

IsSuccessObject(j) == j.ok /\ IsDict(j.v) /\ Get(j.v, "status", None) = S("success")

\* C8: generate_sql always returns a dict whose status is success or error;
\* success only when the model text without its markdown fences parses as a
\* JSON object whose status is success (and then that object is returned);
\* text that is not JSON gives 'AI returned invalid JSON'; JSON that is not
\* such an object gives an error result.
C8_GenerateSqlResult ==
    sql_result # NoResult =>
        /\ IsDict(sql_result)
        /\ Get(sql_result, "status", None) \in {S("success"), S("error")}
        /\ Get(sql_result, "status", None) = S("success") => GotText
        /\ GotText =>
              LET Answer(j) ==
                      /\ Get(sql_result, "status", None) = S("success") =>
                             IsSuccessObject(j) /\ sql_result = j.v
                      /\ ~j.ok => sql_result = D([status |-> S("error"),
                                                  message |-> S("AI returned invalid JSON")])
                      /\ (j.ok /\ ~IsSuccessObject(j)) =>
                             Get(sql_result, "status", None) = S("error")
              IN  Answer(json_loads(StripFences(ai.value.text.v)))

\* a fenced answer was unwrapped, parsed and returned as a success
C8_Witness ==
    /\ sql_result # NoResult
    /\ GotText /\ StartsWith(ai.value.text.v, Fence)
    /\ Get(sql_result, "status", None) = S("success")
    /\ Get(sql_result, "sql_query", None) = S("SELECT x")

\* the events of the call that are exceptions raised by sqlite3
RaisedEvents == {i \in 1..Len(db_events) : db_events[i].op = "raised"}

\* sqlite3.connect returned a connection
ConnectionOpened ==
    \E i \in 1..Len(db_events) :
        /\ db_events[i].op = "connect"
        /\ ~(i < Len(db_events) /\ db_events[i + 1].op = "raised"
                                /\ db_events[i + 1].at = "connect")

\* the connection was closed, once, as the last thing the call did
ConnectionClosed ==
    /\ db_events # <<>>
    /\ db_events[Len(db_events)].op = "close"
    /\ Cardinality({i \in 1..Len(db_events) : db_events[i].op = "close"}) = 1

\* C13: execute_query never raises: it returns a dict whose status is success
\* or error; a database error or any other exception during execution is
\* returned as status error with a message; on success row_count is the
\* number of rows fetched, 0 with an empty data frame when there are none;
\* and the connection it opened is closed on every path.
C13_ExecuteQueryNeverRaises ==
    exec_result # NoResult =>
        /\ "status" \in DOMAIN exec_result
        /\ exec_result.status \in {"success", "error"}
        /\ exec_result.status = "error" => "message" \in DOMAIN exec_result
        /\ \A i \in RaisedEvents :
              /\ exec_result.status = "error"
              /\ exec_result.message =
                    (IF db_events[i].exc = "sqlite3.Error"
                     THEN "Database error: " ELSE "Execution error: ") \o db_events[i].text
        /\ exec_result.status = "success" =>
              /\ \E i \in 1..Len(db_events) :
                    /\ db_events[i].op = "fetchall"
                    /\ db_events[i].rows = exec_result.row_count
              /\ exec_result.row_count = 0 => exec_result.data = EmptyDataFrame
              /\ exec_result.row_count > 0 => exec_result.data.nrows = exec_result.row_count
        /\ ConnectionOpened => ConnectionClosed
        /\ ~ConnectionOpened => \A i \in 1..Len(db_events) : db_events[i].op # "close"

\* cursor.execute raised an exception that is no sqlite3.Error: it came back
\* as an execution error and the connection was closed
C13_Witness ==
    /\ exec_result # NoResult
    /\ \E i \in RaisedEvents : db_events[i].exc = "Exception" /\ db_events[i].at = "execute"
    /\ exec_result.status = "error"
    /\ exec_result.message = "Execution error: boom"
    /\ ConnectionOpened /\ ConnectionClosed

-----------------------------------------------------------------------------
(* Claims about generate_suggestions, under SpecSuggest *)

\* a non-empty list of at most 3 non-empty strings
IsSuggestionList(x) ==
    /\ "t" \in DOMAIN x /\ x.t = "list"
    /\ Len(x.v) \in 1..3
    /\ \A i \in 1..Len(x.v) : IsStr(x.v[i]) /\ x.v[i].v # ""

\* the loop returned a response whose text is a str
GotSuggestionText ==
    /\ IsDict(suggest_schema)
    /\ ai.status = "returned"
    /\ ai.value # None
    /\ IsStr(ai.value.text)

\* no model was available, or an exception occurred before the text was read
NoSuggestionText ==
    \/ ~IsDict(suggest_schema)
    \/ ai.status = "raised"
    \/ ai.status = "returned" /\ ai.value = None
    \/ ai.status = "returned" /\ ai.value # None /\ ~IsStr(ai.value.text)

\* the text is no JSON list, or a JSON list whose first three entries are all
\* empty once cleaned
NoUsableList(text) ==
    LET Unusable(parsed) ==
            \/ ~parsed.ok
            \/ parsed.v.t # "list"
            \/ \A i \in 1..Min(3, Len(parsed.v.v)) : CleanOne(parsed.v.v[i]) = ""
    IN  Unusable(json_loads(text))

\* C14 as stated: generate_suggestions never raises and returns a non-empty
\* list of at most 3 non-empty strings; when no model is available, the
\* response is not a JSON list, every cleaned suggestion is empty, or an
\* exception occurs, it returns exactly the three default suggestions.
C14_SuggestionsOrDefaults ==
    suggestions # NoResult =>
        /\ IsSuggestionList(suggestions)
        /\ NoSuggestionText => suggestions = get_default_suggestions
        /\ (GotSuggestionText /\ NoUsableList(StripFences(ai.value.text.v))) =>
              suggestions = get_default_suggestions

\* the part of the response from its first "[" to its last "]", the whole
\* response when it has no such part
ListPart(text) ==
    IF \E i, j \in 1..Len(text) : i < j /\ Ch(text, i) = "[" /\ Ch(text, j) = "]"
       /\ \A k \in 1..(i - 1) : Ch(text, k) # "["
    THEN SubSeq(text, StrFind(text, "[") + 1, StrRFind(text, "]") + 1)
    ELSE text

\* C14, amended: generate_suggestions never raises and returns a non-empty
\* list of at most 3 non-empty strings; when no model is available, the part
\* of the response from its first "[" to its last "]" (the whole response
\* when there is none) is not a JSON list, every cleaned suggestion is empty,
\* or an exception occurs, it returns exactly the three default suggestions.
C14_SuggestionsOrDefaultsFromListPart ==
    suggestions # NoResult =>
        /\ IsSuggestionList(suggestions)
        /\ NoSuggestionText => suggestions = get_default_suggestions
        /\ (GotSuggestionText /\ NoUsableList(ListPart(StripFences(ai.value.text.v)))) =>
              suggestions = get_default_suggestions

\* a list of three entries all empty once cleaned gave the defaults, after two
\* models were not found
C14_Witness ==
    /\ suggestions = get_default_suggestions
    /\ GotSuggestionText
    /\ Len(ai.requests) = 3
    /\ json_loads(ai.value.text.v).ok
    /\ json_loads(ai.value.text.v).v.t = "list"
    /\ Len(json_loads(ai.value.text.v).v.v) = 3

-----------------------------------------------------------------------------
(* Claims about get_schema, under SpecSchema *)

\* the sum of row_count over the tables of a schema
RECURSIVE RowsListed(_, _)
RowsListed(schema, names) ==
    IF names = {} THEN 0
    ELSE LET Rest(name) == schema[name].row_count + RowsListed(schema, names \ {name})
         IN  Rest(CHOOSE name \in names : TRUE)

\* the number of columns listed in a schema
RECURSIVE ColumnsListed(_, _)
ColumnsListed(schema, names) ==
    IF names = {} THEN 0
    ELSE LET Rest(name) == Len(schema[name].columns) + ColumnsListed(schema, names \ {name})
         IN  Rest(CHOOSE name \in names : TRUE)

\* C16: the statistics get_schema returns agree with the schema it returns:
\* total_tables is the number of tables in the schema, total_rows the sum of
\* their row_count and total_columns the number of columns listed, also
\* when introspection of some table fails part-way and the table is skipped;
\* a missing or nonexistent path gives (None, None).
C16_StatsAgreeWithSchema ==
    schema_result # NoResult =>
        /\ (~Truthy(db.path) \/ ~db.exists) =>
              schema_result.schema = None /\ schema_result.stats = None
        /\ schema_result.schema # None =>
              /\ schema_result.stats # None
              /\ schema_result.stats.v.total_tables =
                    Cardinality(DOMAIN schema_result.schema.v)
              /\ schema_result.stats.v.total_rows =
                    RowsListed(schema_result.schema.v, DOMAIN schema_result.schema.v)
              /\ schema_result.stats.v.total_columns =
                    ColumnsListed(schema_result.schema.v, DOMAIN schema_result.schema.v)

-----------------------------------------------------------------------------
(* Claims about the chat sessions, under SpecChat *)

SavedIds == {session_state.chat_sessions[i].id : i \in 1..Len(session_state.chat_sessions)}

\* C4: chat_sessions holds at most 50 entries in every reachable state, after
\* any sequence of create_new, save_current, load, delete, reset_chat and
\* handle_user_input.
C4_AtMostFiftySessions == Len(session_state.chat_sessions) <= MaxChatSessions

\* a 51st chat was saved and the oldest chat, never deleted, left the full list
C4_Witness ==
    /\ Len(session_state.chat_sessions) = MaxChatSessions
    /\ SessionId(MaxChatSessions) \in SavedIds
    /\ SessionId(0) \notin SavedIds
    /\ \A i \in 1..(MaxChatSessions - 1) : SessionId(i) \in SavedIds

\* C5: after delete(session_id) returns, chat_sessions contains no session
\* whose id is session_id, for every session the sidebar lets the user delete,
\* the current session with a non-empty message list included.
C5_DeletedSessionIsGone ==
    (calls # <<>> /\ calls[Len(calls)].op = "delete") =>
        calls[Len(calls)].session_id \notin SavedIds

CompareKeys == {"role", "content", "sql_query", "execution_time"}

\* the two messages carry the same role, content, sql_query and execution_time
SameConversation(m1, m2) ==
    \A key \in CompareKeys :
        /\ key \in DOMAIN m1 <=> key \in DOMAIN m2
        /\ key \in DOMAIN m1 \cap DOMAIN m2 => m1[key] = m2[key]

\* the last two calls were load(B) and then load(A), A being the session that
\* was current, with messages, when load(B) was called
SwitchedAndBack ==
    /\ Len(calls) = 2
    /\ calls[1].op = "load" /\ calls[2].op = "load"
    /\ Truthy(calls[1].from.id)
    /\ calls[1].from.messages # <<>>
    /\ calls[1].session_id # calls[1].from.id
    /\ calls[2].session_id = calls[1].from.id

\* C9: if session A is current with a non-empty message list, then after
\* load(B) for another saved session B followed by load(A) the current session
\* is A, the current messages carry the same role, content, sql_query and
\* execution_time, in the same order, as A's messages just before load(B),
\* and query_history equals A's query_history at that moment.
C9_SwitchKeepsConversation ==
    SwitchedAndBack =>
        /\ session_state.current_session_id = calls[1].from.id
        /\ Len(session_state.messages) = Len(calls[1].from.messages)
        /\ \A k \in 1..Len(calls[1].from.messages) :
              SameConversation(session_state.messages[k], calls[1].from.messages[k])
        /\ session_state.query_history = calls[1].from.query_history

\* the saved copies of the current session
CurrentSaved ==
    {i \in 1..Len(session_state.chat_sessions) :
        session_state.chat_sessions[i].id = session_state.current_session_id}

\* C15: in every reachable state every message inside every entry of
\* chat_sessions has exactly the keys role and content plus, when the live
\* message has them, sql_query and execution_time; it never has a dataframe
\* or a visualization key.
C15_StoredMessagesSerialisable ==
    /\ \A i \in 1..Len(session_state.chat_sessions) :
          \A k \in 1..Len(session_state.chat_sessions[i].messages) :
              /\ {"role", "content"} \subseteq DOMAIN session_state.chat_sessions[i].messages[k]
              /\ DOMAIN session_state.chat_sessions[i].messages[k]
                    \subseteq {"role", "content", "sql_query", "execution_time"}
    /\ \A i \in CurrentSaved :
          \A k \in 1..Min(Len(session_state.messages),
                          Len(session_state.chat_sessions[i].messages)) :
              DOMAIN session_state.chat_sessions[i].messages[k] =
                  {"role", "content"}
                      \cup ({"sql_query", "execution_time"} \cap DOMAIN session_state.messages[k])

\* an answer that holds its data frame and a figure is saved with its four
\* plain keys, next to a question saved with two
C15_Witness ==
    \E i \in CurrentSaved :
        \E k \in 1..Min(Len(session_state.messages),
                        Len(session_state.chat_sessions[i].messages)) :
            /\ "dataframe" \in DOMAIN session_state.messages[k]
            /\ RecGet(session_state.messages[k], "visualization", None) # None
            /\ DOMAIN session_state.chat_sessions[i].messages[k] =
                  {"role", "content", "sql_query", "execution_time"}
            /\ DOMAIN session_state.chat_sessions[i].messages[1] = {"role", "content"}

\* the last call was handle_user_input
Asked == calls # <<>> /\ calls[Len(calls)].op = "ask"

\* the generated SQL of the last question was executed against the database
SqlExecuted == \E i \in 1..Len(db_events) : db_events[i].op = "execute"

\* C17: total_queries_executed counts the queries that were run: a question
\* whose generated SQL was executed against the database raises it by exactly
\* one; a question whose SQL generation failed, or whose SQL the validator
\* rejected, leaves it as it was.
C17_CountsExecutedQueries ==
    Asked =>
        session_state.total_queries_executed =
            calls[Len(calls)].total_queries_executed + (IF SqlExecuted THEN 1 ELSE 0)

-----------------------------------------------------------------------------
(* Claims about detect_opportunity, under SpecViz *)

\* the positions of the columns a selector picks
Positions(frame, include) ==
    {i \in 1..Len(frame.cols) : DtypeKind(frame.cols[i].dtype) \in include}

Lowest(positions) == CHOOSE i \in positions : \A j \in positions : i <= j

NumericPositions(frame) == Positions(frame, {"number"})
CategoricalPositions(frame) == Positions(frame, {"object", "category"})
DatePositions(frame) == Positions(frame, {"datetime64"})

\* the chart the fixed priority gives: bar, else scatter, else line, else None
PriorityChart(frame) ==
    IF /\ NumericPositions(frame) # {}
       /\ CategoricalPositions(frame) # {}
       /\ frame.nrows <= 50
       /\ frame.cols[Lowest(CategoricalPositions(frame))].nunique <= 20
    THEN [type |-> "bar",
          x |-> frame.cols[Lowest(CategoricalPositions(frame))].name,
          y |-> frame.cols[Lowest(NumericPositions(frame))].name]
    ELSE IF Cardinality(NumericPositions(frame)) >= 2 /\ frame.nrows <= 100
    THEN [type |-> "scatter",
          x |-> frame.cols[Lowest(NumericPositions(frame))].name,
          y |-> frame.cols[Lowest(NumericPositions(frame)
                                     \ {Lowest(NumericPositions(frame))})].name]
    ELSE IF DatePositions(frame) # {} /\ NumericPositions(frame) # {}
    THEN [type |-> "line",
          x |-> frame.cols[Lowest(DatePositions(frame))].name,
          y |-> frame.cols[Lowest(NumericPositions(frame))].name]
    ELSE None

\* config is the expected chart, or None when none is expected
IsChart(config, expected) ==
    IF expected = None THEN config = None
    ELSE /\ config # None
         /\ config.type = expected.type
         /\ config.x = expected.x
         /\ config.y = expected.y

\* the returned type is bar, scatter or line and x, y name columns of the result
WellFormedChart(config, frame) ==
    config # None =>
        /\ config.type \in {"bar", "scatter", "line"}
        /\ \E i \in 1..Len(frame.cols) : frame.cols[i].name = config.x
        /\ \E i \in 1..Len(frame.cols) : frame.cols[i].name = config.y

Detected == viz_config # NoResult /\ IsDataFrame(df)

\* C10 as stated: detect_opportunity chooses the chart by the fixed priority
\* bar (numeric and categorical column, at most 50 rows, first categorical
\* column with at most 20 distinct values), else scatter (two numeric
\* columns, at most 100 rows), else line (datetime and numeric column), else
\* None; the type is bar, scatter or line and x, y name columns of the result.
C10_FixedPriority ==
    Detected =>
        /\ IsChart(viz_config, PriorityChart(df))
        /\ WellFormedChart(viz_config, df)

UniqueLabel(frame, i) ==
    \A j \in 1..Len(frame.cols) : j # i => frame.cols[j].name # frame.cols[i].name

\* the scan of the categorical columns, in order, for one with at most 20
\* distinct values finds one, and meets no label that is not unique on the way
FindsSmallCategory(frame) ==
    \E k \in CategoricalPositions(frame) :
        /\ frame.cols[k].nunique <= 20
        /\ \A j \in CategoricalPositions(frame) : j <= k => UniqueLabel(frame, j)

\* the results for which no chart is attempted
NoChartAttempted(frame) ==
    \/ frame.nrows = 0
    \/ frame.cols = <<>>
    \/ frame.nrows > 500
    \/ CategoricalPositions(frame) # {} /\ ~FindsSmallCategory(frame)

\* C10, amended: detect_opportunity returns None for an empty result, for a
\* result of more than 500 rows and for a result that has categorical columns
\* when the scan of them for one with at most 20 distinct values finds none
\* or meets a column whose label is not unique; for every other result it
\* chooses the chart by the fixed priority bar, scatter, line, None of the
\* claim; the type is bar, scatter or line and x, y name columns of the result.
C10_FixedPriorityWhenAttempted ==
    Detected =>
        /\ IsChart(viz_config, IF NoChartAttempted(df) THEN None ELSE PriorityChart(df))
        /\ WellFormedChart(viz_config, df)

\* a bar chart was passed over for its 21 categories and a scatter chart chosen,
\* a second categorical column having few enough
C10_Witness ==
    /\ Detected
    /\ viz_config # None
    /\ viz_config.type = "scatter"
    /\ df.nrows = 50
    /\ Cardinality(CategoricalPositions(df)) = 2
    /\ df.cols[Lowest(CategoricalPositions(df))].nunique = 21

\* every categorical column of the result has more than 20 distinct values
AllCategoriesLarge(frame) ==
    /\ CategoricalPositions(frame) # {}
    /\ \A k \in CategoricalPositions(frame) : frame.cols[k].nunique > 20

\* C12: when the result has a categorical column and every categorical column
\* has more than 20 distinct values, detect_opportunity returns None, also
\* when two or more numeric columns are present; and the x column of a
\* returned bar configuration never has more than 20 distinct values.
C12_TooManyCategoriesNotCharted ==
    Detected =>
        /\ AllCategoriesLarge(df) => viz_config = None
        /\ (viz_config # None /\ viz_config.type = "bar") =>
              \A i \in 1..Len(df.cols) :
                  df.cols[i].name = viz_config.x => df.cols[i].nunique <= 20

\* a result of 50 rows with two numeric columns, good for a scatter chart, got
\* none because its only categorical column has 21 distinct values
C12_Witness ==
    /\ Detected
    /\ viz_config = None
    /\ df.nrows = 50
    /\ Cardinality(NumericPositions(df)) >= 2
    /\ Cardinality(CategoricalPositions(df)) = 1
    /\ AllCategoriesLarge(df)
    /\ \A i \in 1..Len(df.cols) : UniqueLabel(df, i)

-----------------------------------------------------------------------------
(* Claims about charts in the chat, under SpecChat *)

\* the messages appended in this session, which still hold their result
LiveResults ==
    {k \in 1..Len(session_state.messages) : "dataframe" \in DOMAIN session_state.messages[k]}

\* the result of the last execute_query is empty or has more than 500 rows
EmptyOrLargeResult ==
    /\ exec_result # NoResult
    /\ exec_result.status = "success"
    /\ exec_result.row_count = 0 \/ exec_result.row_count > 500

\* C11: no chart is produced for an empty result or for a result of more than
\* 500 rows: detect_opportunity returns None for it, and the assistant message
\* stored for it holds no figure (its visualization is None).
C11_NoChartForEmptyOrLargeResult ==
    /\ EmptyOrLargeResult => detect_opportunity(exec_result.data, S("simple_select")) = None
    /\ \A k \in LiveResults :
          LET Unchartable(frame) ==
                  frame = None \/ frame.nrows = 0 \/ frame.nrows > 500
          IN  Unchartable(session_state.messages[k].dataframe) =>
                  RecGet(session_state.messages[k], "visualization", None) = None

\* a result of 501 rows was answered without a chart while one of 500 rows,
\* in the same chat, got its line chart
C11_Witness ==
    /\ \E k \in LiveResults :
          /\ session_state.messages[k].dataframe = DailyFrame(501)
          /\ session_state.messages[k].visualization = None
    /\ \E k \in LiveResults :
          /\ session_state.messages[k].dataframe = DailyFrame(500)
          /\ session_state.messages[k].visualization # None
          /\ session_state.messages[k].visualization.figure = "line"

====
